---- MODULE Spec2Model ----
(***************************************************************************)
(* A model of classes/githubproject.py: the GithubProject operations       *)
(* create_update_pr (the request reconciler), create_repo (the repository  *)
(* provisioner with its readiness poll), add_repo_to_runner_group and      *)
(* delete_old_workflows, run against an abstract GitHub backend.           *)
(*                                                                         *)
(* Every call the code makes on the backend is one step, so that a call    *)
(* can fail where the code can see it fail.  A PyGithub call fails by      *)
(* raising GithubException with an HTTP status; the code's handlers decide *)
(* what becomes of it: sys.exit(1) ("exited"), an exception that leaves    *)
(* the method ("raised"), or a fall-through.                               *)
(***************************************************************************)
EXTENDS Naturals, Sequences, FiniteSets, TLC

VARIABLES
  \* the bootstrap repository on the backend
  branches,      \* names of the branches other than main
  branchFile,    \* branchFile[b]: text of requests/{b}.json on branch b
  mainFile,      \* mainFile[b]: text of requests/{b}.json on main
  pulls,         \* the pull requests, in order of creation
  \* one create_update_pr invocation per process
  pc, request, branch_name, all_branches, request_json, json_file,
  create_file, github_pulls, pr,
  \* history of the invocation, and of the one before it
  input,         \* the request as it was passed in
  calls,         \* the backend calls issued so far, with their results
  rerun,         \* the previous invocation, when this one repeats its request
  last,          \* the latest invocation that returned, while undisturbed
  \* create_repo
  cr_pc, project_params, repo_ready, check_count,
  posts,         \* the creation requests posted, with their status codes
  lookups,       \* the session.get_repo calls, with their results
  readme,        \* the create_file calls for README.md, with their results
  edits,         \* the results of the edit(default_branch='main') attempts
  slept,         \* the number of sleep(5) calls taken
  \* the organisation's runner groups on the backend
  runner_groups, \* the groups, in the order the API lists them
  group_repos,   \* the pairs <<group id, repository id>> bound so far
  \* add_repo_to_runner_group
  rg_pc, repo_name, runner_group_name, repo_id, groups, runner_group_id,
  rg_result,     \* the value returned
  rg_raised,     \* the class of the exception that left the method
  rg_calls,      \* the requests issued so far, with their results
  \* the workflows of the bootstrap repository on the backend
  workflows,     \* the names of the workflows, as get_workflows lists them
  runs,          \* the runs of the polling workflow, in the order of the API
  \* delete_old_workflows
  dw_pc, bootstrap_workflow, workflow_runs, run_qty,
  dw_i,          \* the turns of the loop taken
  deleted,       \* the runs deleted by this invocation, in order
  dw_calls,      \* the calls issued so far, with their results
  runs0          \* the runs as they were when the method was called

backendVars == <<branches, branchFile, mainFile, pulls>>
localVars == <<pc, request, branch_name, all_branches, request_json, json_file,
               create_file, github_pulls, pr>>
historyVars == <<input, calls, rerun, last>>
reconVars == <<backendVars, localVars, historyVars>>
provVars == <<cr_pc, project_params, repo_ready, check_count, posts, lookups,
              readme, edits, slept>>
runnerVars == <<runner_groups, group_repos, rg_pc, repo_name, runner_group_name,
                repo_id, groups, runner_group_id, rg_result, rg_raised, rg_calls>>
pruneVars == <<workflows, runs, dw_pc, bootstrap_workflow, workflow_runs, run_qty,
               dw_i, deleted, dw_calls, runs0>>
vars == <<reconVars, provVars, runnerVars, pruneVars>>
\* What the steps of one operation leave alone.
notRecon == <<provVars, runnerVars, pruneVars>>
notProv == <<reconVars, runnerVars, pruneVars>>
notRunner == <<reconVars, provVars, pruneVars>>
notPrune == <<reconVars, provVars, runnerVars>>

----------------------------------------------------------------------------
\* Bounds of the model.

\* The backend refuses to hold more pull requests than this.
MaxPulls == 2

\* line 272: the attempts of the readiness poll.  line 273: sleep(5).
MaxChecks == 10
Delay == 5
\* lines 210 and 244
Created == 201

\* The polling workflow has at most this many runs.
MaxRuns == 15
\* line 162: if run_qty > 12.  line 166: workflow_runs[12:].
CropThreshold == 12
CropFrom == 12

Procs == {"p1", "p2"}
\* The single caller of the sequential specification.
SeqProcs == {"p1"}

\* Python's None, and str() of a value inside an f-string.
None == "<None>"
Fmt(v) == IF v = None THEN "None" ELSE v

\* dict.get(key)
Get(r, k) == IF k \in DOMAIN r THEN r[k] ELSE None
\* r[k] = v
Put(r, k, v) == [x \in DOMAIN r \cup {k} |-> IF x = k THEN v ELSE r[x]]

\* The requests a caller passes: an id, and any of a few other keys.
Ids == {"1"}
OptVals == [github_repo |-> {"a"},
            repo_description |-> {"x"}]
OptKeys == DOMAIN OptVals
AllVals == Ids \cup UNION {OptVals[k] : k \in OptKeys}
Requests ==
  {r \in UNION {[{"id"} \cup K -> AllVals] : K \in SUBSET OptKeys} :
     /\ r["id"] \in Ids
     /\ \A k \in DOMAIN r \ {"id"} : r[k] \in OptVals[k]}

github_org == "org"

BranchNameByDescription(r) ==
  "REQ_" \o Fmt(r["id"]) \o "_" \o Fmt(Get(r, "repo_description"))
\* line 47
BranchName(r) == "REQ_" \o Fmt(r["id"]) \o "_" \o Fmt(Get(r, "github_repo"))

BranchNames == {BranchName(r) : r \in Requests}

\* lines 62-80
json_fields ==
  <<"github_repo", "repo_description", "base_template", "jira_project_keys",
    "github_project_visibility", "product", "github_project_teams_write",
    "github_projects_teams_admin",
    "github_project_branch_protection_restricted_teams",
    "prod_alerts_severity_label", "nonprod_alerts_severity_label",
    "slack_channel_nonprod_release_notify", "slack_channel_prod_release_notify",
    "slack_channel_security_scans_notify", "requester_name", "requester_email",
    "requester_team">>
AllowList == {json_fields[i] : i \in 1..Len(json_fields)}

RequestJsonNullPadded(r) == [k \in AllowList |-> Get(r, k)]
\* line 82: {key: request.get(key) for key in json_fields if key in request}
RequestJson(r) == [k \in AllowList \cap DOMAIN r |-> Get(r, k)]

\* json.dumps of a dict: its items as text, in the dict's insertion order,
\* which for request_json is the order of json_fields.
Dumps(m) ==
  LET ks == SelectSeq(json_fields, LAMBDA k : k \in DOMAIN m)
  IN  [i \in 1..Len(ks) |-> <<ks[i], m[ks[i]]>>]
\* The mapping a JSON text denotes, and its key set.
Loads(text) ==
  LET Val(k) == (CHOOSE i \in 1..Len(text) : text[i][1] = k)
  IN  [k \in {text[i][1] : i \in 1..Len(text)} |-> text[Val(k)][2]]
KeysOf(text) == {text[i][1] : i \in 1..Len(text)}

\* A path of a tree: no file there, or a file with its text.
Absent == [exists |-> FALSE, text |-> <<>>]
File(text) == [exists |-> TRUE, text |-> text]
\* The revision marker of a file: its blob sha, a function of its text.
Sha(text) == <<"blob", text>>

\* head as the backend stores it for a branch of the bootstrap repository
Label(b) == github_org \o ":" \o b

NoRequest == [id |-> None]
NoJsonFile == [path |-> None, sha |-> Sha(<<>>)]
NoRun == [valid |-> FALSE, input |-> NoRequest, output |-> NoRequest,
          branch |-> None, file |-> Absent]

\* project_params of create_repo; an empty template name is falsy (line 188).
NoParams == [github_org |-> None, github_repo |-> None,
             github_template_repo |-> None, description |-> None]
Params == [github_org : {github_org}, github_repo : {"a", "b"},
           github_template_repo : {"", "template"}, description : {"x"}]

\* A call and its result: "ok", or the status of the GithubException raised.
Call(op, res) == [op |-> op, res |-> res]
Issued(p, op) == \E i \in 1..Len(calls[p]) : calls[p][i].op = op
Log(p, op, res) == calls' = [calls EXCEPT ![p] = Append(@, Call(op, res))]

Reverse(s) == [i \in 1..Len(s) |-> s[Len(s) + 1 - i]]
\* The backend's list of pull requests for get_pulls(state, sort='created',
\* base, head): sorted by creation, and with no direction given, newest first.
ListPulls(state, base, head) ==
  Reverse(SelectSeq(pulls,
            LAMBDA q : q.state = state /\ q.base = base /\ q.head = head))

Init ==
  /\ branches = {}
  /\ mainFile = [b \in BranchNames |-> Absent]
  /\ branchFile = [b \in BranchNames |-> Absent]
  /\ pulls = <<>>
  /\ pc = [p \in Procs |-> "idle"]
  /\ request = [p \in Procs |-> NoRequest]
  /\ branch_name = [p \in Procs |-> None]
  /\ all_branches = [p \in Procs |-> {}]
  /\ request_json = [p \in Procs |-> RequestJson(NoRequest)]
  /\ json_file = [p \in Procs |-> NoJsonFile]
  /\ create_file = [p \in Procs |-> FALSE]
  /\ github_pulls = [p \in Procs |-> <<>>]
  /\ pr = [p \in Procs |-> 0]
  /\ input = [p \in Procs |-> NoRequest]
  /\ calls = [p \in Procs |-> <<>>]
  /\ rerun = [p \in Procs |-> NoRun]
  /\ last = NoRun
  /\ cr_pc = "idle"
  /\ project_params = NoParams
  /\ repo_ready = FALSE
  /\ check_count = 0
  /\ posts = <<>>
  /\ lookups = <<>>
  /\ readme = <<>>
  /\ edits = <<>>
  /\ slept = 0
  /\ runner_groups = <<>>
  /\ group_repos = {}
  /\ rg_pc = "idle"
  /\ repo_name = None
  /\ runner_group_name = None
  /\ repo_id = 0
  /\ groups = <<>>
  /\ runner_group_id = 0
  /\ rg_result = None
  /\ rg_raised = None
  /\ rg_calls = <<>>
  /\ workflows = <<>>
  /\ runs = <<>>
  /\ dw_pc = "idle"
  /\ bootstrap_workflow = <<>>
  /\ workflow_runs = <<>>
  /\ run_qty = 0
  /\ dw_i = 0
  /\ deleted = <<>>
  /\ dw_calls = <<>>
  /\ runs0 = <<>>

----------------------------------------------------------------------------
\* create_update_pr, lines 46-151.

\* line 52: branch_name not in [branch.name for branch in all_branches]
BranchMissing(name, listed) == name \notin listed

\* lines 99-107: the handler of the try around get_contents and update_file
OnDescriptorErrorSwallowed(status) ==
  IF status = "404" THEN "create_file" ELSE "get_pulls"
OnDescriptorError(status) == IF status = "404" THEN "create_file" ELSE "exited"

\* lines 124-129: the pull requests asked for
PullsQueryWrongHead(p) == ListPulls("open", "main", branch_name[p])
PullsQuery(p) == ListPulls("open", "main", Label(branch_name[p]))

\* lines 91-97 and 112-117: the text written, json.dumps(request_json), which
\* replaces whatever text the file had
WrittenTextMerging(old, m) ==
  Dumps([k \in DOMAIN m \cup KeysOf(old) |->
           IF k \in DOMAIN m THEN m[k] ELSE Loads(old)[k]])
WrittenText(old, m) == Dumps(m)

\* line 132: github_pulls.totalCount == 0
NoPullsAlways(found) == TRUE
NoPulls(found) == Len(found) = 0

\* line 136 and 137
Title(r) == "Project request for " \o Fmt(Get(r, "github_repo"))
Body(r) == "Project request raised for " \o Fmt(Get(r, "github_repo"))

RaisedOutcomeDescribing(r, number) ==
  Put(Put(Put(Put(r, "request_github_pr_number", number), "output_status", "New"),
          "request_github_pr_status", "Raised"), "repo_description", "Raised")
RaisedOutcomeAsUpdated(r, number) ==
  Put(Put(Put(r, "request_github_pr_number", number), "output_status", "Updated"),
      "request_github_pr_status", "Raised")
\* lines 142-144
RaisedOutcome(r, number) ==
  Put(Put(Put(r, "request_github_pr_number", number), "output_status", "New"),
      "request_github_pr_status", "Raised")
UpdatedOutcomeAsNew(r, number) ==
  Put(Put(Put(r, "request_github_pr_number", number), "output_status", "New"),
      "request_github_pr_status", "Updated")
\* lines 147-149
UpdatedOutcome(r, number) ==
  Put(Put(Put(r, "request_github_pr_number", number), "output_status", "Updated"),
      "request_github_pr_status", "Updated")

\* The locals of the invocation of process p.
SetLocals(p, ab, rj, jf, cf, gp, n) ==
  /\ all_branches' = [all_branches EXCEPT ![p] = ab]
  /\ request_json' = [request_json EXCEPT ![p] = rj]
  /\ json_file' = [json_file EXCEPT ![p] = jf]
  /\ create_file' = [create_file EXCEPT ![p] = cf]
  /\ github_pulls' = [github_pulls EXCEPT ![p] = gp]
  /\ pr' = [pr EXCEPT ![p] = n]
KeepLocals ==
  UNCHANGED <<all_branches, request_json, json_file, create_file, github_pulls, pr>>
\* The frame is gone once the method is left; the request outlives it.
DropLocals(p) == SetLocals(p, {}, RequestJson(NoRequest), NoJsonFile, FALSE, <<>>, 0)

\* The method is left: by return, by sys.exit(1), or by an exception.
Leave(p, how) ==
  /\ pc' = [pc EXCEPT ![p] = how]
  /\ DropLocals(p)
Goto(p, where) == pc' = [pc EXCEPT ![p] = where]

Left == {"idle", "returned", "exited", "raised"}

\* The invocation as it stands when it returns.
Run(p, out, file) ==
  [valid |-> TRUE, input |-> input[p], output |-> out,
   branch |-> branch_name[p], file |-> file]

\* lines 46-47: the method is entered, with the branch name computed
Enter(p, r) ==
  /\ Goto(p, "get_branches")
  /\ request' = [request EXCEPT ![p] = r]
  /\ branch_name' = [branch_name EXCEPT ![p] = BranchName(r)]
  /\ KeepLocals
  /\ input' = [input EXCEPT ![p] = r]
  /\ calls' = [calls EXCEPT ![p] = <<>>]
  /\ rerun' = [rerun EXCEPT ![p] =
                 IF last.valid /\ r \in {last.input, last.output}
                 THEN last ELSE NoRun]
  /\ last' = NoRun
  /\ UNCHANGED backendVars
  /\ UNCHANGED notRecon

\* The call of a caller that waits for the invocation before to end.
Begin(p, r) ==
  /\ \A q \in Procs : pc[q] \in Left
  /\ Enter(p, r)

\* The one call of a caller that runs beside another.
Invoke(p, r) ==
  /\ pc[p] = "idle"
  /\ Enter(p, r)

\* lines 54-57: no try block around create_git_ref
OnRefErrorIgnored == "get_contents"
OnRefError == "raised"

\* line 51: get_branches.  No handler.
GetBranches(p) ==
  /\ pc[p] = "get_branches"
  /\ \/ /\ all_branches' = [all_branches EXCEPT ![p] = branches \cup {"main"}]
        /\ Goto(p, IF BranchMissing(branch_name[p], branches \cup {"main"})
                   THEN "create_git_ref" ELSE "get_contents")
        /\ Log(p, "get_branches", "ok")
        /\ UNCHANGED <<request_json, json_file, create_file, github_pulls, pr>>
     \/ /\ Leave(p, "raised")
        /\ Log(p, "get_branches", "500")
  /\ UNCHANGED <<backendVars, request, branch_name, input, rerun, last>>
  /\ UNCHANGED notRecon

\* lines 54-57: create_git_ref at the sha of main's tip; the new branch has
\* main's tree.  The backend refuses a ref that exists (422).  No handler.
CreateGitRef(p) ==
  /\ pc[p] = "create_git_ref"
  /\ \/ /\ branch_name[p] \notin branches
        /\ branches' = branches \cup {branch_name[p]}
        /\ branchFile' = [branchFile EXCEPT ![branch_name[p]] = mainFile[branch_name[p]]]
        /\ Goto(p, "get_contents")
        /\ KeepLocals
        /\ Log(p, "create_git_ref", "ok")
     \/ /\ Leave(p, OnRefError)
        /\ Log(p, "create_git_ref", IF branch_name[p] \in branches THEN "422" ELSE "500")
        /\ UNCHANGED <<branches, branchFile>>
  /\ UNCHANGED <<mainFile, pulls, request, branch_name, input, rerun, last>>
  /\ UNCHANGED notRecon

\* lines 99-107 and 109: what follows a GithubException of the try block
DescriptorError(p, status) ==
  IF OnDescriptorError(status) = "create_file"
  THEN /\ Goto(p, "create_file")
       /\ create_file' = [create_file EXCEPT ![p] = TRUE]
       /\ UNCHANGED <<all_branches, json_file, github_pulls, pr>>
  ELSE /\ pc' = [pc EXCEPT ![p] = OnDescriptorError(status)]
       /\ all_branches' = [all_branches EXCEPT ![p] = {}]
       /\ json_file' = [json_file EXCEPT ![p] = NoJsonFile]
       /\ UNCHANGED <<create_file, github_pulls, pr>>

\* lines 82-89 and 99-107: request_json is built, then get_contents of
\* requests/{branch_name}.json at ref branch_name.  The path is only ever
\* written as a file, so what is returned is a file (line 90) or nothing (404).
GetContents(p) ==
  LET b == branch_name[p]
      there == b \in branches /\ branchFile[b].exists
  IN
  /\ pc[p] = "get_contents"
  /\ \/ /\ there
        /\ request_json' = [request_json EXCEPT ![p] = RequestJson(request[p])]
        /\ json_file' = [json_file EXCEPT ![p] =
                           [path |-> "requests/" \o b \o ".json",
                            sha |-> Sha(branchFile[b].text)]]
        /\ Goto(p, "update_file")
        /\ Log(p, "get_contents", "ok")
        /\ UNCHANGED <<all_branches, create_file, github_pulls, pr>>
     \/ \E status \in (IF there THEN {} ELSE {"404"}) \cup {"500"} :
          /\ request_json' = [request_json EXCEPT ![p] =
                                IF OnDescriptorError(status) = "create_file"
                                THEN RequestJson(request[p])
                                ELSE RequestJson(NoRequest)]
          /\ DescriptorError(p, status)
          /\ Log(p, "get_contents", status)
  /\ UNCHANGED <<backendVars, request, branch_name, input, rerun, last>>
  /\ UNCHANGED notRecon

\* lines 91-97 and 99-107: update_file with the sha that was read.  The
\* backend answers 404 when the branch or the file is gone and 409 when the
\* sha is not the file's.
UpdateFile(p) ==
  LET b == branch_name[p]
      there == b \in branches /\ branchFile[b].exists
      fresh == there /\ Sha(branchFile[b].text) = json_file[p].sha
  IN
  /\ pc[p] = "update_file"
  /\ \/ /\ fresh
        /\ branchFile' = [branchFile EXCEPT ![b] =
                            File(WrittenText(@.text, request_json[p]))]
        /\ Goto(p, "get_pulls")
        /\ Log(p, "update_file", "ok")
        /\ KeepLocals
     \/ \E status \in (IF ~there THEN {"404"} ELSE IF ~fresh THEN {"409"} ELSE {})
                        \cup {"500"} :
          /\ request_json' = [request_json EXCEPT ![p] =
                                IF OnDescriptorError(status) = "create_file"
                                THEN @ ELSE RequestJson(NoRequest)]
          /\ DescriptorError(p, status)
          /\ Log(p, "update_file", status)
          /\ UNCHANGED branchFile
  /\ UNCHANGED <<branches, mainFile, pulls, request, branch_name, input, rerun, last>>
  /\ UNCHANGED notRecon

\* lines 109-122: create_file, any GithubException being fatal.  The backend
\* answers 404 when the branch is gone and 422 when the file exists.
CreateFile(p) ==
  LET b == branch_name[p] IN
  /\ pc[p] = "create_file"
  /\ create_file[p]
  /\ \/ /\ b \in branches /\ ~branchFile[b].exists
        /\ branchFile' = [branchFile EXCEPT ![b] =
                            File(WrittenText(@.text, request_json[p]))]
        /\ Goto(p, "get_pulls")
        /\ Log(p, "create_file", "ok")
        /\ KeepLocals
     \/ /\ Leave(p, "exited")
        /\ Log(p, "create_file",
               IF b \notin branches THEN "404"
               ELSE IF branchFile[b].exists THEN "422" ELSE "500")
        /\ UNCHANGED branchFile
  /\ UNCHANGED <<branches, mainFile, pulls, request, branch_name, input, rerun, last>>
  /\ UNCHANGED notRecon

\* lines 124-132 and 145-151: get_pulls; with a pull request found, its number
\* is recorded and the request returned.  No handler.
GetPulls(p) ==
  LET found == PullsQuery(p) IN
  /\ pc[p] = "get_pulls"
  /\ \/ /\ Log(p, "get_pulls", "ok")
        /\ IF NoPulls(found)
           THEN /\ Goto(p, "create_pull")
                /\ github_pulls' = [github_pulls EXCEPT ![p] = found]
                /\ UNCHANGED <<all_branches, request_json, json_file, create_file, pr>>
                /\ UNCHANGED <<request, last>>
           ELSE /\ Leave(p, "returned")
                /\ request' = [request EXCEPT ![p] =
                                 UpdatedOutcome(@, found[1].number)]
                /\ last' = Run(p, UpdatedOutcome(request[p], found[1].number),
                               branchFile[branch_name[p]])
     \/ /\ Leave(p, "raised")
        /\ Log(p, "get_pulls", "500")
        /\ UNCHANGED <<request, last>>
  /\ UNCHANGED <<backendVars, branch_name, input, rerun>>
  /\ UNCHANGED notRecon

\* lines 135-140: create_pull.  No handler.
CreatePull(p) ==
  LET number == Len(pulls) + 1 IN
  /\ pc[p] = "create_pull"
  /\ \/ /\ Len(pulls) < MaxPulls
        /\ branch_name[p] \in branches
        /\ pulls' = Append(pulls,
                     [number |-> number, head |-> Label(branch_name[p]),
                      base |-> "main", state |-> "open",
                      title |-> Title(request[p]), body |-> Body(request[p]),
                      automerge |-> "off"])
        /\ pr' = [pr EXCEPT ![p] = number]
        /\ Goto(p, "enable_automerge")
        /\ Log(p, "create_pull", "ok")
        /\ UNCHANGED <<all_branches, request_json, json_file, create_file, github_pulls>>
     \/ /\ Leave(p, "raised")
        /\ Log(p, "create_pull",
               IF branch_name[p] \in branches THEN "500" ELSE "422")
        /\ UNCHANGED pulls
  /\ UNCHANGED <<branches, branchFile, mainFile, request, branch_name, input,
                 rerun, last>>
  /\ UNCHANGED notRecon

\* lines 141-144 and 151: enable_automerge('MERGE'), then the outcome is
\* recorded and the request returned.  No handler.
EnableAutomerge(p) ==
  /\ pc[p] = "enable_automerge"
  /\ \/ /\ pulls[pr[p]].state = "open"
        /\ pulls' = [pulls EXCEPT ![pr[p]].automerge = "MERGE"]
        /\ request' = [request EXCEPT ![p] = RaisedOutcome(@, pr[p])]
        /\ Leave(p, "returned")
        /\ last' = Run(p, RaisedOutcome(request[p], pr[p]),
                       branchFile[branch_name[p]])
        /\ Log(p, "enable_automerge", "ok")
     \/ /\ Leave(p, "raised")
        /\ Log(p, "enable_automerge",
               IF pulls[pr[p]].state = "open" THEN "500" ELSE "422")
        /\ UNCHANGED <<pulls, request, last>>
  /\ UNCHANGED <<branches, branchFile, mainFile, branch_name, input, rerun>>
  /\ UNCHANGED notRecon

----------------------------------------------------------------------------
\* The backend, on its own.

\* An open pull request is merged (the auto-merge of line 141, or by hand):
\* main takes the head branch's descriptor.
MergePull(i) ==
  LET q == pulls[i]
      b == CHOOSE n \in BranchNames : Label(n) = q.head
  IN
  /\ q.state = "open"
  /\ b \in branches
  /\ pulls' = [pulls EXCEPT ![i].state = "closed"]
  /\ mainFile' = [mainFile EXCEPT ![b] = branchFile[b]]
  /\ rerun' = [p \in Procs |-> NoRun]
  /\ last' = NoRun
  /\ UNCHANGED <<branches, branchFile, localVars, input, calls>>
  /\ UNCHANGED notRecon

\* A branch with no open pull request is deleted (a merged head branch is
\* deleted by the repository's settings, any other by hand).
DeleteBranch(b) ==
  /\ b \in branches
  /\ Len(ListPulls("open", "main", Label(b))) = 0
  /\ branches' = branches \ {b}
  /\ branchFile' = [branchFile EXCEPT ![b] = Absent]
  /\ rerun' = [p \in Procs |-> NoRun]
  /\ last' = NoRun
  /\ UNCHANGED <<mainFile, pulls, localVars, input, calls>>
  /\ UNCHANGED notRecon

----------------------------------------------------------------------------
\* The requests a caller may pass next: a fresh one, or one a previous
\* invocation returned (the mapping is updated in place and passed again).
Passable == Requests \cup {request[q] : q \in {x \in Procs : pc[x] = "returned"}}

\* Sequential invocations of create_update_pr by one caller.
Next ==
  \/ \E p \in SeqProcs : \E r \in Passable : Begin(p, r)
  \/ \E p \in SeqProcs : GetBranches(p)
  \/ \E p \in SeqProcs : CreateGitRef(p)
  \/ \E p \in SeqProcs : GetContents(p)
  \/ \E p \in SeqProcs : UpdateFile(p)
  \/ \E p \in SeqProcs : CreateFile(p)
  \/ \E p \in SeqProcs : GetPulls(p)
  \/ \E p \in SeqProcs : CreatePull(p)
  \/ \E p \in SeqProcs : EnableAutomerge(p)
  \/ \E i \in 1..Len(pulls) : MergePull(i)
  \/ \E b \in BranchNames : DeleteBranch(b)


Spec == Init /\ [][Next]_vars

\* Two callers, each invoking create_update_pr once, their steps interleaved.
NextRace ==
  \/ \E p \in Procs : \E r \in Requests : Invoke(p, r)
  \/ \E p \in Procs : GetBranches(p)
  \/ \E p \in Procs : CreateGitRef(p)
  \/ \E p \in Procs : GetContents(p)
  \/ \E p \in Procs : UpdateFile(p)
  \/ \E p \in Procs : CreateFile(p)
  \/ \E p \in Procs : GetPulls(p)
  \/ \E p \in Procs : CreatePull(p)
  \/ \E p \in Procs : EnableAutomerge(p)

SpecRace == Init /\ [][NextRace]_vars

----------------------------------------------------------------------------
\* create_repo, lines 187-286.

\* The status codes the creation call may answer with.
StatusCodes == {Created, 422}

\* line 188: if project_params['github_template_repo']
FromTemplateNever(params) == FALSE
FromTemplate(params) == params.github_template_repo # ""

\* lines 210 and 244: if r.status_code != 201 ... sys.exit(1)
AcceptedWhatever(code) == TRUE
Accepted(code) == code = Created

\* line 272: while not repo_ready and check_count < 10
PollAgainOffByOne(ready, count) == ~ready /\ count <= MaxChecks
PollAgainAfterSuccess(ready, count) == count < MaxChecks
PollAgain(ready, count) == ~ready /\ count < MaxChecks

\* line 187: the call
CreateRepo(params) ==
  /\ cr_pc \in Left
  /\ cr_pc' = "post"
  /\ project_params' = params
  /\ repo_ready' = FALSE
  /\ check_count' = 0
  /\ posts' = <<>>
  /\ lookups' = <<>>
  /\ readme' = <<>>
  /\ edits' = <<>>
  /\ slept' = 0
  /\ UNCHANGED notProv

\* lines 188-216 and 224-250: the creation request and its status code
Post ==
  /\ cr_pc = "post"
  /\ \E code \in StatusCodes :
       /\ posts' = Append(posts,
                     [url |-> IF FromTemplate(project_params)
                              THEN "repos/" \o project_params.github_org \o "/"
                                   \o project_params.github_template_repo \o "/generate"
                              ELSE "orgs/" \o project_params.github_org \o "/repos",
                      name |-> project_params.github_repo,
                      status_code |-> code])
       /\ cr_pc' = IF Accepted(code) THEN "get_repo" ELSE "exited"
  /\ UNCHANGED <<project_params, repo_ready, check_count, lookups, readme, edits, slept>>
  /\ UNCHANGED notProv

\* lines 219-221 and 253-255: session.get_repo.  No handler.
GetRepo ==
  /\ cr_pc = "get_repo"
  /\ \/ /\ lookups' = Append(lookups, "ok")
        /\ cr_pc' = IF FromTemplate(project_params)
                    THEN (IF PollAgain(repo_ready, check_count) THEN "sleep" ELSE "exited")
                    ELSE "readme"
     \/ /\ lookups' = Append(lookups, "404")
        /\ cr_pc' = "raised"
  /\ UNCHANGED <<project_params, repo_ready, check_count, posts, readme, edits, slept>>
  /\ UNCHANGED notProv

\* lines 256-266: README.md is created, a GithubException being fatal
Readme ==
  /\ cr_pc = "readme"
  /\ \E res \in {"ok", "500"} :
       /\ readme' = Append(readme, res)
       /\ cr_pc' = IF res = "ok"
                   THEN (IF PollAgain(repo_ready, check_count) THEN "sleep" ELSE "exited")
                   ELSE "exited"
  /\ UNCHANGED <<project_params, repo_ready, check_count, posts, lookups, edits, slept>>
  /\ UNCHANGED notProv

\* line 273: sleep(5)
Sleep ==
  /\ cr_pc = "sleep"
  /\ slept' = slept + 1
  /\ cr_pc' = "edit"
  /\ UNCHANGED <<project_params, repo_ready, check_count, posts, lookups, readme, edits>>
  /\ UNCHANGED notProv

\* lines 274-286: one attempt, the loop's test, and what follows the loop
Edit ==
  /\ cr_pc = "edit"
  /\ \E res \in {"ok", "failed"} :
       LET ready == (res = "ok")
           count == IF res = "ok" THEN check_count ELSE check_count + 1
       IN
       /\ edits' = Append(edits, res)
       /\ repo_ready' = ready
       /\ check_count' = count
       /\ cr_pc' = IF PollAgain(ready, count) THEN "sleep"
                   ELSE IF ~ready THEN "exited" ELSE "returned"
  /\ UNCHANGED <<project_params, posts, lookups, readme, slept>>
  /\ UNCHANGED notProv

\* Invocations of create_repo.
NextRepo ==
  \/ \E params \in Params : CreateRepo(params)
  \/ Post
  \/ GetRepo
  \/ Readme
  \/ Sleep
  \/ Edit

SpecRepo == Init /\ [][NextRepo]_vars

----------------------------------------------------------------------------
\* add_repo_to_runner_group, lines 288-334.

\* The repositories of the organisation, with their ids, and the runner
\* groups an administrator may have set up.
OrgRepos == [a |-> [id |-> 1]]
RepoNames == {"a", "b"}
GroupNames == {"g1", "g2"}
Group(name) == [name |-> name, id |-> IF name = "g1" THEN 1 ELSE 2]
GroupLists ==
  {<<>>, <<Group("g1")>>, <<Group("g2")>>, <<Group("g1"), Group("g2")>>}

\* Python's truth value of the objects tested: a Repository object is true,
\* a dict is true when it has keys.
Truthy(v) == DOMAIN v # {}

\* requests' Response.raise_for_status: HTTPError for a 4xx or 5xx status
ErrorStatuses == {"403", "404", "500"}
RaisesForStatus(status) == status \in ErrorStatuses

\* lines 315 and 328: except GithubException
Handles(exc) == exc = "GithubException"

\* line 308: the generator g for g in groups if g['name'] == runner_group_name
Matching(gs, name) == SelectSeq(gs, LAMBDA g : g.name = name)

\* The locals the steps of the method leave alone.
RgKeep == UNCHANGED <<repo_name, runner_group_name>>

\* return, with a value
RgReturn(value) ==
  /\ rg_pc' = "returned"
  /\ rg_result' = value
  /\ rg_raised' = None

\* An exception raised inside one of the try blocks: the handler returns
\* False when the clause names its class, else it leaves the method.
RgRaiseInTry(exc) ==
  IF Handles(exc)
  THEN RgReturn("False")
  ELSE /\ rg_pc' = "raised"
       /\ rg_raised' = exc
       /\ rg_result' = None

\* An exception raised outside any try block
RgRaise(exc) ==
  /\ rg_pc' = "raised"
  /\ rg_raised' = exc
  /\ rg_result' = None

RgLog(op, res) == rg_calls' = Append(rg_calls, Call(op, res))
RgIssued(op) == \E i \in 1..Len(rg_calls) : rg_calls[i].op = op

\* line 288: the call
AddRepoToRunnerGroup(rn, gn) ==
  /\ rg_pc \in Left
  /\ rg_pc' = "get_repo"
  /\ repo_name' = rn
  /\ runner_group_name' = gn
  /\ repo_id' = 0
  /\ groups' = <<>>
  /\ runner_group_id' = 0
  /\ rg_result' = None
  /\ rg_raised' = None
  /\ rg_calls' = <<>>
  /\ UNCHANGED <<runner_groups, group_repos>>
  /\ UNCHANGED notRunner

\* lines 289-295: org.get_repo answers with the repository or raises
\* GithubException, 404 for a name the organisation does not have; the call
\* is outside the try blocks.
RgGetRepo ==
  /\ rg_pc = "get_repo"
  /\ \E res \in IF repo_name \in DOMAIN OrgRepos THEN {"ok", "500"} ELSE {"404"} :
       /\ RgLog("get_repo", res)
       /\ IF res = "ok"
          THEN LET repo == OrgRepos[repo_name] IN
               IF ~Truthy(repo)
               THEN RgReturn("False") /\ UNCHANGED repo_id
               ELSE /\ repo_id' = repo.id
                    /\ rg_pc' = "list"
                    /\ UNCHANGED <<rg_result, rg_raised>>
          ELSE RgRaise("GithubException") /\ UNCHANGED repo_id
  /\ RgKeep
  /\ UNCHANGED <<runner_groups, group_repos, groups, runner_group_id>>
  /\ UNCHANGED notRunner

\* lines 301-317: the list request, raise_for_status, and next() over the
\* groups with the wanted name; next() without a default raises
\* StopIteration when there is none.
RgList ==
  /\ rg_pc = "list"
  /\ \E status \in {"200"} \cup ErrorStatuses :
       /\ RgLog("list", status)
       /\ IF RaisesForStatus(status)
          THEN /\ RgRaiseInTry("HTTPError")
               /\ UNCHANGED <<groups, runner_group_id>>
          ELSE /\ groups' = runner_groups
               /\ LET found == Matching(runner_groups, runner_group_name) IN
                  IF found = <<>>
                  THEN RgRaiseInTry("StopIteration") /\ UNCHANGED runner_group_id
                  ELSE IF Truthy(Head(found))
                  THEN /\ runner_group_id' = Head(found).id
                       /\ rg_pc' = "put"
                       /\ UNCHANGED <<rg_result, rg_raised>>
                  ELSE RgReturn("False") /\ UNCHANGED runner_group_id
  /\ RgKeep
  /\ UNCHANGED <<runner_groups, group_repos, repo_id>>
  /\ UNCHANGED notRunner

\* lines 319-334: the bind request and raise_for_status; the backend answers
\* 404 for a group that is gone.
RgPut ==
  /\ rg_pc = "put"
  /\ \E status \in {"204"} \cup ErrorStatuses :
       /\ status = "204" =>
            \E i \in 1..Len(runner_groups) : runner_groups[i].id = runner_group_id
       /\ RgLog("put", status)
       /\ IF RaisesForStatus(status)
          THEN /\ RgRaiseInTry("HTTPError")
               /\ UNCHANGED group_repos
          ELSE /\ group_repos' = group_repos \cup {<<runner_group_id, repo_id>>}
               /\ RgReturn("True")
  /\ RgKeep
  /\ UNCHANGED <<runner_groups, repo_id, groups, runner_group_id>>
  /\ UNCHANGED notRunner

\* An administrator sets up or removes runner groups; the bindings of a
\* removed group go with it.
Administer(gs) ==
  /\ gs # runner_groups
  /\ runner_groups' = gs
  /\ group_repos' = {b \in group_repos : \E i \in 1..Len(gs) : gs[i].id = b[1]}
  /\ UNCHANGED <<rg_pc, repo_name, runner_group_name, repo_id, groups,
                 runner_group_id, rg_result, rg_raised, rg_calls>>
  /\ UNCHANGED notRunner

\* Invocations of add_repo_to_runner_group.
NextRunner ==
  \/ \E rn \in RepoNames : \E gn \in GroupNames : AddRepoToRunnerGroup(rn, gn)
  \/ RgGetRepo
  \/ RgList
  \/ RgPut
  \/ \E gs \in GroupLists : Administer(gs)

SpecRunner == Init /\ [][NextRunner]_vars

----------------------------------------------------------------------------
\* delete_old_workflows, lines 153-172.

\* line 158: the name of the workflow whose runs are cropped
WorkflowName == "Bootstrap - poll for repo requests"
\* The workflows the bootstrap repository may have.
WorkflowLists ==
  {<<>>, <<WorkflowName>>, <<"CI", WorkflowName>>,
   <<"Bootstrap - poll for repo requests (legacy)">>}

\* lines 155-159: the workflows of exactly that name
Named(ws) == SelectSeq(ws, LAMBDA w : w = WorkflowName)

\* line 162: if run_qty > 12
OverThreshold(qty) == qty > CropThreshold

\* line 166: workflow_runs[12:]
CroppedFromTheEnd(list) == SubSeq(list, 1, Len(list) - CropFrom)
Cropped(list) == SubSeq(list, CropFrom + 1, Len(list))

\* lines 169-172: the handler logs a warning and the method ends
OnPruneErrorFatal == "exited"
OnPruneError == "returned"

\* A sequence without the element x.
Without(s, x) == SelectSeq(s, LAMBDA y : y # x)

DwLog(op, res) == dw_calls' = Append(dw_calls, Call(op, res))

\* Between invocations the repository comes to have some workflows and n
\* runs of the polling workflow, listed by the API in the order 1..n; the
\* history of the invocation before is forgotten.
Arrange(ws, n) ==
  /\ dw_pc \in Left
  /\ workflows' = ws
  /\ runs' = [i \in 1..n |-> i]
  /\ dw_pc' = "idle"
  /\ bootstrap_workflow' = <<>>
  /\ workflow_runs' = <<>>
  /\ run_qty' = 0
  /\ dw_i' = 0
  /\ deleted' = <<>>
  /\ dw_calls' = <<>>
  /\ runs0' = <<>>
  /\ UNCHANGED notPrune

\* line 153: the call
DeleteOldWorkflows ==
  /\ dw_pc \in Left
  /\ dw_pc' = "get_workflows"
  /\ bootstrap_workflow' = <<>>
  /\ workflow_runs' = <<>>
  /\ run_qty' = 0
  /\ dw_i' = 0
  /\ deleted' = <<>>
  /\ dw_calls' = <<>>
  /\ runs0' = runs
  /\ UNCHANGED <<workflows, runs>>
  /\ UNCHANGED notPrune

\* lines 155-159: get_workflows and the filter on the name; an empty list
\* ends the method
DwGetWorkflows ==
  /\ dw_pc = "get_workflows"
  /\ \/ /\ DwLog("get_workflows", "ok")
        /\ bootstrap_workflow' = Named(workflows)
        /\ dw_pc' = IF Named(workflows) # <<>> THEN "get_runs" ELSE "returned"
     \/ /\ DwLog("get_workflows", "500")
        /\ dw_pc' = OnPruneError
        /\ UNCHANGED bootstrap_workflow
  /\ UNCHANGED <<workflows, runs, workflow_runs, run_qty, dw_i, deleted, runs0>>
  /\ UNCHANGED notPrune

\* lines 160-162: the runs of the first workflow of that name, their count,
\* and the test on it
DwGetRuns ==
  /\ dw_pc = "get_runs"
  /\ \/ /\ DwLog("get_runs", "ok")
        /\ workflow_runs' = runs
        /\ run_qty' = Len(runs)
        /\ dw_pc' = IF OverThreshold(Len(runs)) /\ Cropped(runs) # <<>>
                    THEN "delete" ELSE "returned"
     \/ /\ DwLog("get_runs", "500")
        /\ dw_pc' = OnPruneError
        /\ UNCHANGED <<workflow_runs, run_qty>>
  /\ UNCHANGED <<workflows, runs, bootstrap_workflow, dw_i, deleted, runs0>>
  /\ UNCHANGED notPrune

\* lines 166-167: one turn of the loop over workflow_runs[12:]
DwDelete ==
  /\ dw_pc = "delete"
  /\ LET run == Cropped(workflow_runs)[dw_i + 1] IN
     \/ /\ DwLog("delete", "ok")
        /\ runs' = Without(runs, run)
        /\ deleted' = Append(deleted, run)
        /\ dw_i' = dw_i + 1
        /\ dw_pc' = IF dw_i + 1 < Len(Cropped(workflow_runs))
                    THEN "delete" ELSE "returned"
     \/ /\ DwLog("delete", "500")
        /\ dw_pc' = OnPruneError
        /\ UNCHANGED <<runs, deleted, dw_i>>
  /\ UNCHANGED <<workflows, bootstrap_workflow, workflow_runs, run_qty, runs0>>
  /\ UNCHANGED notPrune

\* Invocations of delete_old_workflows.
NextPrune ==
  \/ \E ws \in WorkflowLists : \E n \in 0..MaxRuns : Arrange(ws, n)
  \/ DeleteOldWorkflows
  \/ DwGetWorkflows
  \/ DwGetRuns
  \/ DwDelete

SpecPrune == Init /\ [][NextPrune]_vars

----------------------------------------------------------------------------
\* What the claims speak of.

\* The open pull requests with the branch as head and main as base.
OpenFor(b) ==
  {i \in 1..Len(pulls) :
     pulls[i].state = "open" /\ pulls[i].base = "main"
     /\ pulls[i].head = github_org \o ":" \o b}

\* The allow-list projection of a request.
Projection(r) == [k \in DOMAIN r \cap AllowList |-> r[k]]

OutcomeKeys == {"output_status", "request_github_pr_number", "request_github_pr_status"}

\* The request with the outcome of a pull request recorded in it.
WithOutcome(r, out, number, status, prStatus) ==
  /\ DOMAIN out = DOMAIN r \cup OutcomeKeys
  /\ \A k \in DOMAIN r \ OutcomeKeys : out[k] = r[k]
  /\ out["request_github_pr_number"] = number
  /\ out["output_status"] = status
  /\ out["request_github_pr_status"] = prStatus

\* Process p's call of get_pulls answers in this step.
PullsListed(p) == pc[p] = "get_pulls" /\ pc'[p] \notin {"get_pulls", "raised"}

\* A call of a kind that an invocation issued and that succeeded.
Succeeded(p, op) == \E i \in 1..Len(calls[p]) : calls[p][i] = Call(op, "ok")

\* A call on the descriptor file failed otherwise than by the named 404s.
DescriptorOps == {"get_contents", "update_file", "create_file"}
FailedBut(p, tolerated) ==
  \E i \in 1..Len(calls[p]) :
    /\ calls[p][i].op \in DescriptorOps
    /\ calls[p][i].res # "ok"
    /\ ~(calls[p][i].res = "404" /\ calls[p][i].op \in tolerated)

----------------------------------------------------------------------------
\* C1: when an invocation that returned is followed, with nothing else
\* happening to the repository, by an invocation with the same request that
\* returns too, the second ends on the same branch, with the descriptor text
\* the first left, with exactly one open pull request from that branch into
\* main, and without having issued create_pull.
C1_Idempotent ==
  \A p \in Procs :
    pc[p] = "returned" /\ rerun[p].valid =>
      /\ branch_name[p] = rerun[p].branch
      /\ rerun[p].file.exists
      /\ branchFile[branch_name[p]] = rerun[p].file
      /\ Cardinality(OpenFor(branch_name[p])) = 1
      /\ ~Issued(p, "create_pull")

C1_Witness == \E p \in Procs : pc[p] = "returned" /\ rerun[p].valid

\* C2: in every state of sequential invocations that start from a repository
\* with no pull request, every branch is the head of at most one open pull
\* request into main.
C2_AtMostOneOpenPull == \A b \in BranchNames : Cardinality(OpenFor(b)) <= 1

C2_Witness ==
  \E p \in Procs :
    /\ pc[p] = "returned"
    /\ Get(request[p], "output_status") = "Updated"
    /\ Len(pulls) = MaxPulls
    /\ Cardinality(OpenFor(branch_name[p])) = 1

\* C3: when get_pulls answers with an open pull request for the branch, the
\* invocation returns in that step with that pull request's number and with
\* "Updated" as both statuses, no pull request is created or changed, and
\* neither create_pull nor enable_automerge is among its calls.
C3_ExistingPullKept ==
  [][\A p \in Procs :
       PullsListed(p) /\ OpenFor(branch_name[p]) # {} =>
         /\ pc'[p] = "returned"
         /\ pulls' = pulls
         /\ ~Issued(p, "create_pull")' /\ ~Issued(p, "enable_automerge")'
         /\ \E i \in OpenFor(branch_name[p]) :
              WithOutcome(request[p], request'[p], pulls[i].number,
                          "Updated", "Updated")]_vars

C3_Witness ==
  \E p \in Procs :
    /\ pc[p] = "returned"
    /\ Get(request[p], "request_github_pr_status") = "Updated"
    /\ \E i \in OpenFor(branch_name[p]) : pulls[i].automerge = "off"

\* C4: when get_pulls answers with no open pull request for the branch, the
\* next call is create_pull; its success adds exactly one pull request, open,
\* from the branch into main; enable_automerge then sets that pull request to
\* MERGE and the invocation returns with its number, "New" and "Raised",
\* having issued create_pull once.
C4_NewPullRaised ==
  [][\A p \in Procs :
       /\ PullsListed(p) /\ OpenFor(branch_name[p]) = {} =>
            pc'[p] = "create_pull" /\ pulls' = pulls
       /\ pc[p] = "create_pull" /\ pc'[p] = "enable_automerge" =>
            /\ Len(pulls') = Len(pulls) + 1
            /\ SubSeq(pulls', 1, Len(pulls)) = pulls
            /\ pulls'[Len(pulls')].head = github_org \o ":" \o branch_name[p]
            /\ pulls'[Len(pulls')].base = "main"
            /\ pulls'[Len(pulls')].state = "open"
            /\ pr'[p] = pulls'[Len(pulls')].number
       /\ pc[p] = "enable_automerge" /\ pc'[p] = "returned" =>
            /\ \E i \in 1..Len(pulls) :
                 /\ pulls[i].number = pr[p]
                 /\ pulls' = [pulls EXCEPT ![i].automerge = "MERGE"]
            /\ WithOutcome(request[p], request'[p], pr[p], "New", "Raised")
            /\ Len(SelectSeq(calls'[p], LAMBDA c : c.op = "create_pull")) = 1
            /\ SubSeq(calls'[p], Len(calls'[p]) - 2, Len(calls'[p])) =
                 <<Call("get_pulls", "ok"), Call("create_pull", "ok"),
                   Call("enable_automerge", "ok")>>
       /\ pc'[p] = "returned" /\ pc[p] # "returned" =>
            pc[p] \in {"get_pulls", "enable_automerge"}]_vars

C4_Witness ==
  \E p \in Procs :
    /\ pc[p] = "returned"
    /\ Get(request[p], "request_github_pr_status") = "Raised"
    /\ Succeeded(p, "enable_automerge")
    /\ \E i \in OpenFor(branch_name[p]) : pulls[i].automerge = "MERGE"

\* C5: the text an invocation writes to the descriptor file has as keys
\* exactly the keys of its request that are among the 17 allow-listed ones,
\* each with the request's value: no other key of the request (not id, not
\* an outcome key), and no allow-listed key the request lacks.
C5_OnlyAllowListed ==
  [][\A p \in Procs :
       pc[p] \in {"update_file", "create_file"} /\ pc'[p] = "get_pulls" =>
         LET written == branchFile'[branch_name[p]] IN
         /\ written.exists
         /\ KeysOf(written.text) = DOMAIN request[p] \cap AllowList
         /\ Len(written.text) = Cardinality(KeysOf(written.text))
         /\ \A k \in KeysOf(written.text) : Loads(written.text)[k] = request[p][k]
         /\ KeysOf(written.text) \cap ({"id"} \cup OutcomeKeys) = {}
         /\ Cardinality(AllowList) = 17]_vars

C5_Witness ==
  \E p \in Procs :
    /\ pc[p] = "get_pulls"
    /\ OutcomeKeys \subseteq DOMAIN request[p]
    /\ "repo_description" \notin DOMAIN request[p]
    /\ "github_repo" \in DOMAIN request[p]
    /\ branchFile[branch_name[p]].exists
    /\ KeysOf(branchFile[branch_name[p]].text) = {"github_repo"}

C7_FailureExits ==
  \A p \in Procs : FailedBut(p, {"get_contents"}) => pc[p] = "exited"

\* C7, amended: a failed call on the descriptor file, other than a 404 of
\* get_contents or of update_file, leaves the process exited; an exited
\* process has issued neither get_pulls nor create_pull and its request is
\* as it was passed; and the step that exits changes nothing on the backend.
C7_FailureExitsAmended ==
  [][/\ \A p \in Procs :
          /\ FailedBut(p, {"get_contents", "update_file"})' => pc'[p] = "exited"
          /\ pc'[p] = "exited" =>
               /\ ~Issued(p, "get_pulls")' /\ ~Issued(p, "create_pull")'
               /\ request'[p] = input'[p]
               /\ FailedBut(p, {})'
          /\ pc[p] # "exited" /\ pc'[p] = "exited" => UNCHANGED backendVars]_vars

\* The process has exited and the branch it created is still there.
C7_Witness ==
  \E p \in Procs :
    /\ pc[p] = "exited"
    /\ Succeeded(p, "create_git_ref")
    /\ branch_name[p] \in branches
    /\ calls[p][Len(calls[p])] = Call("create_file", "500")

\* C8: the branch of an invocation is REQ_{id}_{github_repo} of its request,
\* the same for any request with that id and github_repo; the descriptor
\* path read is requests/{branch}.json; and when get_branches answers,
\* create_git_ref follows if and only if the branch is not among the
\* branches, its success making the branch with main's tree.
C8_BranchName ==
  [][\A p \in Procs :
       /\ pc'[p] # "idle" =>
            /\ branch_name'[p] =
                 "REQ_" \o input'[p]["id"] \o "_" \o
                 (IF "github_repo" \in DOMAIN input'[p]
                  THEN input'[p]["github_repo"] ELSE "None")
            /\ \A r \in Requests :
                 r["id"] = input'[p]["id"]
                 /\ Get(r, "github_repo") = Get(input'[p], "github_repo")
                 => BranchName(r) = branch_name'[p]
       /\ pc'[p] = "update_file" =>
            json_file'[p].path = "requests/" \o branch_name'[p] \o ".json"
       /\ pc[p] = "get_branches" /\ pc'[p] \notin {"get_branches", "raised"} =>
            (pc'[p] = "create_git_ref" <=> branch_name[p] \notin branches)
       /\ Issued(p, "create_git_ref")' /\ ~Issued(p, "create_git_ref") =>
            pc[p] = "create_git_ref"
       /\ pc[p] = "create_git_ref" /\ pc'[p] = "get_contents" =>
            /\ branch_name[p] \notin branches
            /\ branches' = branches \cup {branch_name[p]}
            /\ branchFile'[branch_name[p]] = mainFile[branch_name[p]]]_vars

\* Two requests that differ in another key have used the same branch, which
\* was created from a main that holds a descriptor.
C8_Witness ==
  \E p \in Procs :
    /\ pc[p] = "get_contents"
    /\ Succeeded(p, "create_git_ref")
    /\ branchFile[branch_name[p]].exists
    /\ Loads(branchFile[branch_name[p]].text) # Projection(input[p])

----------------------------------------------------------------------------
\* The attempts of the readiness poll.
AllFailed == \A i \in 1..Len(edits) : edits[i] = "failed"
Polled == Len(edits) > 0

\* C9: when every attempt of the readiness poll fails, the process exits
\* after exactly 10 attempts and at least 9 sleeps of 5 seconds, 45 seconds;
\* there are never more than 10 attempts; and create_repo returns only after
\* an attempt that succeeded.
C9_PollExhaustion ==
  /\ Len(edits) <= 10
  /\ Polled /\ cr_pc = "exited" =>
       /\ Len(edits) = 10
       /\ AllFailed
       /\ slept >= 9
       /\ slept * Delay >= 45
  /\ Polled /\ AllFailed /\ Len(edits) = 10 => cr_pc = "exited"
  /\ Polled /\ AllFailed /\ Len(edits) < 10 => cr_pc \in {"sleep", "edit"}
  /\ cr_pc = "returned" => \E i \in 1..Len(edits) : edits[i] = "ok"

C9_Witness ==
  /\ cr_pc = "exited"
  /\ Len(edits) = 10
  /\ Len(posts) = 1 /\ posts[1].status_code = 201

\* C10: when the first attempt the backend accepts is attempt k, k in 1..10,
\* exactly k attempts are made, the k - 1 before it having failed without
\* ending the loop, none is made after it, and create_repo has returned
\* rather than exited.
C10_PollEarlySuccess ==
  /\ \A k \in 1..Len(edits) :
       edits[k] = "ok" =>
         /\ k = Len(edits)
         /\ k \in 1..10
         /\ \A i \in 1..(k - 1) : edits[i] = "failed"
         /\ check_count = k - 1
         /\ repo_ready
         /\ cr_pc = "returned"
  /\ cr_pc = "returned" => Polled /\ edits[Len(edits)] = "ok"
  /\ Polled /\ AllFailed /\ Len(edits) < 10 => cr_pc \notin {"exited", "returned", "raised"}

\* The third attempt is the first accepted.
C10_Witness ==
  /\ cr_pc = "returned"
  /\ edits = <<"failed", "failed", "ok">>

\* The creation request was answered with a status other than 201.
Refused == Len(posts) > 0 /\ posts[Len(posts)].status_code # 201

\* C11: on the template path and on the blank path alike, a creation request
\* answered with a status other than 201 ends the process after exactly one
\* POST: no repository lookup, no README creation, no sleep and no edit of the
\* default branch follows it.
C11_RefusalExits ==
  /\ Len(posts) <= 1
  /\ Refused =>
       /\ cr_pc = "exited"
       /\ Len(posts) = 1
       /\ lookups = <<>>
       /\ readme = <<>>
       /\ edits = <<>>
       /\ slept = 0
  /\ (lookups # <<>> \/ readme # <<>> \/ edits # <<>>) =>
       Len(posts) = 1 /\ posts[1].status_code = 201

\* The blank-repository request was refused with 422.
C11_Witness ==
  /\ cr_pc = "exited"
  /\ ~FromTemplate(project_params)
  /\ Refused
  /\ posts[1].status_code = 422

\* A template repository was named in the parameters of the call.
TemplateSupplied == project_params.github_template_repo # ""
GenerateUrl ==
  "repos/" \o project_params.github_org \o "/"
  \o project_params.github_template_repo \o "/generate"
OrgReposUrl == "orgs/" \o project_params.github_org \o "/repos"

\* C12: with a template supplied there is exactly one generate-from-template
\* request and never a README; without one there is exactly one
\* create-in-organisation request and, once it is answered 201, README.md is
\* created before the first attempt of the poll; a failed README creation
\* ends the process with no edit attempted.
C12_PathSelection ==
  /\ Len(posts) <= 1 /\ Len(readme) <= 1
  /\ cr_pc \notin {"idle", "post"} => Len(posts) = 1
  /\ posts # <<>> =>
       posts[1].url = IF TemplateSupplied THEN GenerateUrl ELSE OrgReposUrl
  /\ TemplateSupplied => readme = <<>>
  /\ ~TemplateSupplied /\ (edits # <<>> \/ slept > 0 \/ cr_pc \in {"sleep", "edit", "returned"}) =>
       /\ posts[1].status_code = 201
       /\ readme = <<"ok">>
  /\ readme # <<>> => posts[1].status_code = 201 /\ lookups = <<"ok">>
  /\ readme = <<"500">> => cr_pc = "exited" /\ edits = <<>> /\ slept = 0

\* The blank path has created README.md and then met a failing attempt.
C12_Witness ==
  /\ ~TemplateSupplied
  /\ posts # <<>> /\ posts[1].url = OrgReposUrl
  /\ readme = <<"ok">>
  /\ edits = <<"failed">>

----------------------------------------------------------------------------
\* The requests of add_repo_to_runner_group and their answers.
Answered(op, res) == \E i \in 1..Len(rg_calls) : rg_calls[i] = Call(op, res)
NoSuchGroup ==
  /\ Answered("list", "200")
  /\ \A i \in 1..Len(groups) : groups[i].name # runner_group_name
ReturnedFalse ==
  /\ rg_pc = "returned"
  /\ rg_result = "False"
  /\ rg_raised = None

\* C13: when the list of runner groups, the empty list included, has no group
\* of exactly the wanted name, add_repo_to_runner_group returns false without
\* raising and issues no bind request.
C13_MissingGroupReturnsFalse ==
  NoSuchGroup => ReturnedFalse /\ ~RgIssued("put")

\* C14: whatever the list and bind requests answer, HTTP error statuses
\* included, add_repo_to_runner_group neither exits nor lets an exception
\* out: it returns a boolean, true exactly when a bind request was issued and
\* answered with success.  (A list without the wanted group is C13's case
\* and is left aside here.)
C14_AlwaysBoolean ==
  RgIssued("list") /\ ~NoSuchGroup =>
    /\ rg_pc \notin {"exited", "raised"}
    /\ rg_pc = "returned" =>
         /\ rg_result \in {"True", "False"}
         /\ rg_result = "True" <=> Answered("put", "204")

\* C15: when the organisation has no repository of the given name,
\* add_repo_to_runner_group returns false without exiting or raising, and
\* issues neither the list request nor the bind request.
C15_UnresolvedReturnsFalse ==
  Answered("get_repo", "404") =>
    ReturnedFalse /\ ~RgIssued("list") /\ ~RgIssued("put")

----------------------------------------------------------------------------
\* The calls of delete_old_workflows and their results.
DwFailed(i) == dw_calls[i].res # "ok"
NoFailure == \A i \in 1..Len(dw_calls) : ~DwFailed(i)
HasPollingWorkflow ==
  \E i \in 1..Len(workflows) : workflows[i] = "Bootstrap - poll for repo requests"
Excess(n) == IF n > 12 THEN n - 12 ELSE 0
Elems(s) == {s[i] : i \in 1..Len(s)}

\* C16: with N runs of the workflow "Bootstrap - poll for repo requests", an
\* invocation that meets no failure deletes max(0, N - 12) runs, none for
\* N <= 12 and 3 for N = 15: exactly the runs after the first 12 in the order
\* of the API.  None of the first 12 is ever deleted, and nothing is deleted
\* when no workflow has exactly that name.
C16_CropsToTwelve ==
  LET N == Len(runs0) IN
  /\ dw_pc = "returned" /\ NoFailure /\ HasPollingWorkflow =>
       /\ Len(deleted) = Excess(N)
       /\ N <= 12 => deleted = <<>>
       /\ N = 15 => Len(deleted) = 3
       /\ deleted = [i \in 1..Excess(N) |-> runs0[12 + i]]
       /\ runs = [i \in 1..(N - Excess(N)) |-> runs0[i]]
  /\ dw_pc \notin {"idle"} =>
       /\ \A i \in 1..Len(deleted) : deleted[i] = runs0[12 + i]
       /\ \A i \in 1..N : i <= 12 => runs0[i] \notin Elems(deleted)
       /\ ~HasPollingWorkflow => deleted = <<>> /\ runs = runs0

\* Fifteen runs have been cropped to twelve.
C16_Witness ==
  /\ dw_pc = "returned"
  /\ NoFailure
  /\ Len(runs0) = 15
  /\ Len(deleted) = 3
  /\ Len(runs) = 12

\* C17: delete_old_workflows is best effort: a failure of listing the
\* workflows, of listing the runs or of a deletion neither ends the process
\* nor leaves the method as an exception; the first failure is the last call
\* of the invocation, so no deletion follows it; and the runs deleted before
\* it stay deleted.
C17_BestEffort ==
  /\ dw_pc \notin {"exited", "raised"}
  /\ \A i \in 1..Len(dw_calls) :
       DwFailed(i) => i = Len(dw_calls) /\ dw_pc = "returned"
  /\ dw_pc \in {"get_workflows", "get_runs", "delete", "returned"} =>
       /\ Elems(deleted) \cap Elems(runs) = {}
       /\ Elems(runs) = Elems(runs0) \ Elems(deleted)
       /\ Len(deleted) = Cardinality({i \in 1..Len(dw_calls) :
                                       dw_calls[i] = Call("delete", "ok")})

\* Two of the three excess runs were deleted before a deletion failed.
C17_Witness ==
  /\ dw_pc = "returned"
  /\ Len(runs0) = 15
  /\ Len(deleted) = 2
  /\ dw_calls[Len(dw_calls)] = Call("delete", "500")
  /\ Len(runs) = 13

----------------------------------------------------------------------------
\* Two invocations for the same branch that both found it missing.
Raced(p, q) ==
  /\ p # q
  /\ branch_name[p] = branch_name[q]
  /\ Issued(p, "create_git_ref")
  /\ Issued(q, "create_git_ref")
RefRefused(p) ==
  \E i \in 1..Len(calls[p]) :
    calls[p][i].op = "create_git_ref" /\ calls[p][i].res # "ok"

\* C18: when two invocations for the same (id, github_repo) both list the
\* branches before either creates the ref, both issue create_git_ref and the
\* two do not both succeed: the one the backend refuses because the ref
\* exists loses to one that succeeded.  The loser does not handle the
\* refusal: create_git_ref is its last call, it has left by the exception, it
\* has not touched the descriptor, listed or created a pull request, or set
\* an outcome key, and the branch has at most one open pull request.
C18_RefRaceLoserAborts ==
  \A p, q \in Procs :
    Raced(p, q) =>
      /\ ~(Succeeded(p, "create_git_ref") /\ Succeeded(q, "create_git_ref"))
      /\ Call("create_git_ref", "422") \in Elems(calls[p]) =>
           Succeeded(q, "create_git_ref")
      /\ RefRefused(p) =>
           /\ pc[p] = "raised"
           /\ calls[p][Len(calls[p])].op = "create_git_ref"
           /\ \A op \in DescriptorOps \cup {"get_pulls", "create_pull", "enable_automerge"} :
                ~Issued(p, op)
           /\ request[p] = input[p]
           /\ DOMAIN request[p] \cap OutcomeKeys = {}
           /\ \A i \in 1..Len(pulls) : pulls[i].head = Label(branch_name[p]) =>
                Issued(q, "create_pull")
      /\ Cardinality(OpenFor(branch_name[p])) <= 1

\* Both issued create_git_ref; the winner has raised the pull request and the
\* loser was refused with 422.
C18_Witness ==
  \E p, q \in Procs :
    /\ Raced(p, q)
    /\ Call("create_git_ref", "422") \in Elems(calls[p])
    /\ pc[p] = "raised"
    /\ pc[q] = "returned"
    /\ Cardinality(OpenFor(branch_name[q])) = 1

----------------------------------------------------------------------------
\* The place of a call in the order branch, descriptor, pull request.
Stage(op) ==
  CASE op \in {"get_branches", "create_git_ref"} -> 1
    [] op \in DescriptorOps -> 2
    [] op \in {"get_pulls", "create_pull", "enable_automerge"} -> 3
DescriptorWritten(p) == Succeeded(p, "update_file") \/ Succeeded(p, "create_file")

----------------------------------------------------------------------------
\* The request apart from the three outcome keys.
Kept(r) == [k \in DOMAIN r \ OutcomeKeys |-> r[k]]

\* C20: create_update_pr changes no key of the request other than
\* output_status, request_github_pr_number and request_github_pr_status, and
\* the descriptor it writes does not depend on them: an invocation given the
\* request that the invocation before returned, with nothing else having
\* happened to the repository, works on the same branch and writes the very
\* text that invocation left.
C20_OutcomeKeysOnly ==
  /\ [](\A p \in Procs :
          pc[p] # "idle" =>
            /\ Kept(request[p]) = Kept(input[p])
            /\ DOMAIN input[p] \subseteq DOMAIN request[p]
            /\ pc[p] = "returned" => OutcomeKeys \subseteq DOMAIN request[p]
            /\ pc[p] # "returned" => request[p] = input[p]
            /\ rerun[p].valid /\ input[p] = rerun[p].output =>
                 branch_name[p] = rerun[p].branch)
  /\ [][\A p \in Procs :
         /\ pc[p] \in {"update_file", "create_file"}
         /\ pc'[p] = "get_pulls"
         /\ rerun[p].valid
         /\ input[p] = rerun[p].output
         => /\ branchFile'[branch_name[p]] = rerun[p].file
            /\ KeysOf(branchFile'[branch_name[p]].text) \cap OutcomeKeys = {}]_vars

\* The request returned by a first invocation, outcome keys and all, was
\* passed to a second one, which has returned.
C20_Witness ==
  \E p \in Procs :
    /\ pc[p] = "returned"
    /\ rerun[p].valid
    /\ input[p] = rerun[p].output
    /\ DOMAIN rerun[p].input \cap OutcomeKeys = {}
    /\ Succeeded(p, "update_file")

====
